---- MODULE Spec2Model ----
(***************************************************************************)
(* Model of ServerPainel (src/src/painel.ts): the Discord command console  *)
(* of haxball-server.  One record per received message holds the position  *)
(* of its _command invocation and everything that invocation did.          *)
(*                                                                         *)
(* Text is modelled as sequences of one-character strings, so that the     *)
(* parsing of a message (slice, trim, split, replace, toLowerCase) is      *)
(* computed as the code computes it.                                       *)
(***************************************************************************)
EXTENDS Integers, Sequences, FiniteSets, TLC

(***************************************************************************)
(* Bounds of the model.                                                    *)
(***************************************************************************)
\* number of messages received in one run
MaxMsgs == 2
\* largest fleet (rooms in Server.browsers)
MaxRooms == 2
\* largest fleet whose inventory is rendered
MaxInfoRooms == 3

(***************************************************************************)
(* String primitives of JavaScript, on sequences of characters.            *)
(***************************************************************************)
UpperCase == <<"A","B","C","D","E","F","G","H","I","J","K","L","M",
               "N","O","P","Q","R","S","T","U","V","W","X","Y","Z">>

LowerCase == <<"a","b","c","d","e","f","g","h","i","j","k","l","m",
               "n","o","p","q","r","s","t","u","v","w","x","y","z">>

\* one character of String.prototype.toLowerCase
LowerChar(c) ==
    IF \E i \in 1..26 : UpperCase[i] = c
    THEN LowerCase[CHOOSE i \in 1..26 : UpperCase[i] = c]
    ELSE c

toLowerCase(s) == [i \in 1..Len(s) |-> LowerChar(s[i])]

startsWith(s, p) == Len(s) >= Len(p) /\ SubSeq(s, 1, Len(p)) = p

\* s.slice(n): the text after the first n characters
slice(s, n) == SubSeq(s, n + 1, Len(s))

RECURSIVE trimStart(_)
trimStart(s) == IF s # <<>> /\ Head(s) = " " THEN trimStart(Tail(s)) ELSE s

RECURSIVE trimEnd(_)
trimEnd(s) ==
    IF s # <<>> /\ s[Len(s)] = " " THEN trimEnd(SubSeq(s, 1, Len(s) - 1)) ELSE s

trim(s) == trimEnd(trimStart(s))

\* s.indexOf(p), counted from 1; 0 when p does not occur
indexOf(s, p) ==
    LET hits == {i \in 1..(Len(s) - Len(p) + 1) : SubSeq(s, i, i + Len(p) - 1) = p}
    IN  IF hits = {} THEN 0 ELSE CHOOSE i \in hits : \A j \in hits : i <= j

\* s.replace(p, r) with a string pattern: the first occurrence only
replace(s, p, r) ==
    LET i == indexOf(s, p)
    IN  IF i = 0 THEN s
        ELSE SubSeq(s, 1, i - 1) \o r \o SubSeq(s, i + Len(p), Len(s))

\* s.replace(/c/g, ""): every occurrence of one character
replaceAll(s, c) == SelectSeq(s, LAMBDA x : x # c)

\* s.split(' '): consecutive spaces give empty words
RECURSIVE split(_)
split(s) ==
    LET i == indexOf(s, <<" ">>)
    IN  IF i = 0 THEN <<s>>
        ELSE <<SubSeq(s, 1, i - 1)>> \o split(SubSeq(s, i + 1, Len(s)))

RECURSIVE join(_, _)
join(ws, sep) ==
    IF ws = <<>> THEN <<>>
    ELSE IF Len(ws) = 1 THEN ws[1]
    ELSE ws[1] \o sep \o join(Tail(ws), sep)

Range(f) == {f[i] : i \in DOMAIN f}

(***************************************************************************)
(* Words of the model's messages.                                          *)
(***************************************************************************)
SP == <<" ">>
wHelp == <<"h","e","l","p">>
wTokenlink == <<"t","o","k","e","n","l","i","n","k">>
wOpen == <<"o","p","e","n">>
wInfo == <<"i","n","f","o">>
wMeminfo == <<"m","e","m","i","n","f","o">>
wClose == <<"c","l","o","s","e">>
wExit == <<"e","x","i","t">>
wEval == <<"e","v","a","l">>
wUndefined == <<"u","n","d","e","f","i","n","e","d">>
wTokenObtained == <<"T","o","k","e","n"," ","o","b","t","a","i","n","e","d",":"," ">>

wAlpha == <<"a","l","p","h","a">>
wBeta == <<"b","e","t","a">>
wTok == <<"t","k">>
wQuotes == <<"\"","\"">>
wHelps == <<"h","e","l","p","s">>
wHelpCaps == <<"H","e","l","p">>
wCode == <<"x">>
titleA == <<"A">>
titleB == <<"B">>
titleC == <<"C">>
proxy1 == <<"p","1">>
proxy2 == <<"p","2">>
\* browser["proxyServer"] of a room opened without a proxy
NoProxy == <<>>

(***************************************************************************)
(* Configuration (PainelConfig).                                           *)
(***************************************************************************)
prefix == <<"!">>
mastersDiscordId == {"master"}
bots == (wAlpha :> "alpha.js")

Senders == {"master", "guest"}
Titles == {titleA, titleB}
Proxies == {NoProxy, proxy1}
ReadErrors == {"ENOENT"}
SpawnErrors == {"SpawnFailed"}

\* the text of a message: the prefix, then the words separated by one space
Line(ws) == prefix \o join(ws, SP)

Contents ==
    { Line(<<wHelp>>), Line(<<wHelpCaps>>), Line(<<wTokenlink>>), Line(<<wInfo>>),
      Line(<<wMeminfo>>), Line(<<wOpen, wAlpha, wTok>>), Line(<<wOpen, wAlpha, wQuotes>>),
      Line(<<wOpen, wBeta, wTok>>), Line(<<wClose, titleA>>), Line(<<wExit>>),
      Line(<<wEval, wCode>>), Line(<<wHelps>>), wHelp }

(***************************************************************************)
(* Parsing of a message (_command, lines 103-107 and 139).                 *)
(***************************************************************************)
\* msg.content.slice(prefix.length).trim()
body(content) == trim(slice(content, Len(prefix)))

\* args before args.shift()
rawArgs(content) == split(body(content))

\* text: the body with the first "<word> " removed
text(content) == replace(body(content), rawArgs(content)[1] \o SP, <<>>)

\* command: args.shift()?.toLowerCase()
command(content) == toLowerCase(Head(rawArgs(content)))

\* args after args.shift()
args(content) == Tail(rawArgs(content))

\* args[0] + " ": an absent element is undefined
argPlusSpace(a) == (IF a = <<>> THEN wUndefined ELSE a[1]) \o SP

token(content) ==
    replace(replaceAll(replace(text(content), argPlusSpace(args(content)), <<>>), "\""),
            wTokenObtained, <<>>)

\* the allow-list test left out: every sender passes
isAuthorized_Everyone(id) == TRUE

\* this._mastersDiscordId.includes(msg.author.id)
isAuthorized(id) == id \in mastersDiscordId

\* the test of the bot id left out: readFile is reached for any id
knownBot_Unchecked(a) == TRUE

\* Object.keys(this._bots).includes(args[0])
knownBot(a) == a # <<>> /\ a[1] \in DOMAIN bots

(***************************************************************************)
(* Replies.  An embed has a title, a description (setDescription replaces  *)
(* it), the cause text interpolated into the description, the names of its *)
(* fields and a body of tokens (room names, headers, line breaks).         *)
(***************************************************************************)
Tok(k, t, p, x) == [k |-> k, title |-> t, pid |-> p, proxy |-> x]
NL == Tok("nl", <<>>, 0, NoProxy)

Embed(t, d, c, f, b) == [title |-> t, description |-> d, cause |-> c, fields |-> f, body |-> b]

HelpFields == <<"help", "info", "meminfo", "open", "close", "exit", "eval", "tokenlink">>

(***************************************************************************)
(* _getRoomNameList, lines 72-87: the rendering of the sampled rooms.      *)
(* A sampled room is [name |-> the token "<title> (<pid>)", proxy |-> p].  *)
(***************************************************************************)
RoomName(b) == Tok("name", b.title, b.pid, NoProxy)

\* names.join("\n")
RECURSIVE joinLines(_)
joinLines(names) ==
    IF names = <<>> THEN <<>>
    ELSE IF Len(names) = 1 THEN <<names[1]>>
    ELSE <<names[1], NL>> \o joinLines(Tail(names))

\* a grouping that looks at the last entry only: a proxy seen again after
\* another one starts a second entry
RECURSIVE proxyRooms_Adjacent(_, _)
proxyRooms_Adjacent(rooms, acc) ==
    IF rooms = <<>> THEN acc
    ELSE LET room == Head(rooms)
         IN  IF acc # <<>> /\ acc[Len(acc)].proxy = room.proxy
             THEN proxyRooms_Adjacent(Tail(rooms),
                                      [acc EXCEPT ![Len(acc)].text = @ \o <<room.name, NL>>])
             ELSE proxyRooms_Adjacent(Tail(rooms),
                                      Append(acc, [text |-> <<room.name, NL>>,
                                                   proxy |-> room.proxy]))

\* lines 77-85: one entry per proxy, in first-seen order; text is the names,
\* each followed by a line break
RECURSIVE proxyRooms(_, _)
proxyRooms(rooms, acc) ==
    IF rooms = <<>> THEN acc
    ELSE LET room == Head(rooms)
             found == {i \in 1..Len(acc) : acc[i].proxy = room.proxy}
         IN  IF found # {}
             THEN LET i == CHOOSE k \in found : \A j \in found : k <= j
                  IN  proxyRooms(Tail(rooms),
                                 [acc EXCEPT ![i].text = @ \o <<room.name, NL>>])
             ELSE proxyRooms(Tail(rooms),
                             Append(acc, [text |-> <<room.name, NL>>, proxy |-> room.proxy]))

\* line 87: "• <proxy>\n<text>" per entry, joined by a line break
RECURSIVE renderProxyRooms(_)
renderProxyRooms(ps) ==
    IF ps = <<>> THEN <<>>
    ELSE LET one == <<Tok("header", <<>>, 0, Head(ps).proxy), NL>> \o Head(ps).text
         IN  IF Len(ps) = 1 THEN one ELSE one \o <<NL>> \o renderProxyRooms(Tail(ps))

\* the test of line 72 left out: an empty list is joined like any other
roomNameList_EmptyJoined(rooms) ==
    IF \A i \in 1..Len(rooms) : rooms[i].proxy = NoProxy
    THEN joinLines([i \in 1..Len(rooms) |-> rooms[i].name])
    ELSE renderProxyRooms(proxyRooms(rooms, <<>>))

\* lines 72-87
roomNameList(rooms) ==
    IF rooms = <<>> THEN <<Tok("noRooms", <<>>, 0, NoProxy)>>
    ELSE IF \A i \in 1..Len(rooms) : rooms[i].proxy = NoProxy
         THEN joinLines([i \in 1..Len(rooms) |-> rooms[i].name])
         ELSE renderProxyRooms(proxyRooms(rooms, <<>>))

(***************************************************************************)
(* State.                                                                  *)
(***************************************************************************)
VARIABLES
    msgs,       \* the messages received, in arrival order, each with its handler
    browsers,   \* Server.browsers: the fleet, in insertion order
    closing,    \* browser.close() calls made by exit: pid -> state of the call
    exited,     \* process.exit() has run
    nextPid     \* pid of the next room process

vars == <<msgs, browsers, closing, exited, nextPid>>

NoRoom == [pid |-> 0, title |-> <<>>, proxy |-> NoProxy]

Room(p, t, x) == [pid |-> p, title |-> t, proxy |-> x]

Pids(bs) == {bs[i].pid : i \in 1..Len(bs)}

NoEmbed == Embed("", "", "", <<>>, <<>>)

\* the handler of a message before _command has run
NewMsg(sender, content) ==
    [ sender  |-> sender,
      content |-> content,
      pc      |-> "start",
      failure |-> "none",     \* what rejected a promise of this handler
      logged  |-> <<>>,       \* embeds sent by _logError for this message
      replies |-> <<>>,       \* msg.channel.send calls, with their outcome
      edits   |-> <<>>,       \* message.edit calls, with their outcome
      reads   |-> 0,          \* fs.readFile calls
      spawns  |-> 0,          \* Server.open calls
      closes  |-> 0,          \* Server.close calls
      evals   |-> 0,          \* eval calls
      terms   |-> {},         \* pids of the room processes it asked to terminate
      exits   |-> FALSE,      \* it called process.exit()
      embed   |-> NoEmbed,    \* the embed the handler is filling in
      cur     |-> NoRoom,     \* the browser of the running loop iteration
      idx     |-> 0,          \* the array iterator's next index
      rooms   |-> <<>>,       \* rooms / roomsUsage collected so far
      present |-> {},         \* pids of the fleet when the message arrived
      target  |-> <<>>,       \* the text given to Server.close
      res     |-> "none",     \* what Server.close returned
      sampleFailed |-> 0 ]    \* pid of the room whose sampling failed

\* fleets the console can be constructed with
RECURSIVE Fleets(_)
Fleets(n) ==
    IF n = 0 THEN {<<>>}
    ELSE Fleets(n - 1) \cup
         {Append(f, Room(n, t, x)) : f \in {g \in Fleets(n - 1) : Len(g) = n - 1},
                                      t \in Titles, x \in Proxies}

Init ==
    /\ msgs = <<>>
    /\ browsers \in Fleets(MaxRooms)
    /\ closing = <<>>
    /\ exited = FALSE
    /\ nextPid = Len(browsers) + 1

(***************************************************************************)
(* Building blocks of the handlers.                                        *)
(***************************************************************************)
\* embed.setDescription(d): the description is replaced, not extended
setDescription(e, d, c) == [e EXCEPT !.description = d, !.cause = c]

\* msg.channel.send(e): the reply is handed to the channel; when the channel
\* fails (ok = FALSE) the promise of the call rejects
Send(r, e, ok) ==
    [r EXCEPT !.replies = Append(@, [embed |-> e, delivered |-> ok]),
              !.failure = IF ok THEN @ ELSE "send"]

\* the report posted as a second message instead of an edit of the first
Edit_AsSend(r, e, ok) == Send(r, e, ok)

\* message.edit(e), line 209: the Loading message is edited in place
Edit(r, e, ok) ==
    [r EXCEPT !.edits = Append(@, [embed |-> e, delivered |-> ok]),
              !.failure = IF ok THEN @ ELSE "edit"]

\* lines 41-47: the listener calls this._command(msg) without awaiting it.
\* _command is async: the call returns a promise and never throws, so the
\* catch clause is never entered for a failure of kind k and _logError
\* (lines 52-60) sends nothing.
listenerCatches(k) == FALSE

\* an awaited promise rejects inside _command: the rest of the handler is
\* skipped and the promise of _command rejects
Raise(r, k) ==
    [r EXCEPT !.pc = "rejected",
              !.failure = k,
              !.cur = NoRoom,
              !.logged = IF listenerCatches(k)
                         THEN Append(@, Embed("Log Error", k, "", <<>>, <<>>))
                         ELSE @]

\* embed.setDescription(d) on the embed of the handler, then
\* msg.channel.send(embed)
DescribeAndSend(r, d, c, b, ok) ==
    LET e == [setDescription(r.embed, d, c) EXCEPT !.body = b]
    IN  Send([r EXCEPT !.embed = e], e, ok)

\* the handler has run to its end
Finish(r) == [r EXCEPT !.pc = "done", !.cur = NoRoom]

\* for (const browser of this._server.browsers): the array iterator reads
\* the array at each step; pcLoop is the loop body, pcEnd what follows
IterStart(r, bs, pcLoop, pcEnd) ==
    IF bs = <<>> THEN [r EXCEPT !.pc = pcEnd, !.cur = NoRoom]
    ELSE [r EXCEPT !.pc = pcLoop, !.cur = bs[1], !.idx = 2]

IterNext(r, bs, pcLoop, pcEnd) ==
    IF r.idx > Len(bs) THEN [r EXCEPT !.pc = pcEnd, !.cur = NoRoom]
    ELSE [r EXCEPT !.pc = pcLoop, !.cur = bs[r.idx], !.idx = @ + 1]

\* command.startsWith(name) in place of the comparison
routes_ByPrefix(c, name) == startsWith(c, name)

\* command === name
routes(c, name) == c = name

HelpEmbed == Embed("Help", "Haxball Server", "", HelpFields, <<>>)
TokenlinkEmbed == Embed("Headless Token", "Click here", "", <<>>, <<>>)
LoadingEmbed == Embed("Information", "Loading...", "", <<>>, <<>>)
ClosingEmbed == Embed("Closing", "Closing server...", "", <<>>, <<>>)
\* lines 247 and 249: the value, or the error of the evaluated code
EvalReply(evalOk) == Embed("", IF evalOk THEN "evaled" ELSE "ERROR", "", <<>>, <<>>)

\* lines 170-177
InfoEmbed(rooms) ==
    Embed("Information", "", "", <<"Open rooms", "Bot list">>, roomNameList(rooms))

\* lines 193-207: the room entries are written only when the fleet is not
\* empty at that moment
MeminfoEmbed(roomsUsage, bs) ==
    Embed("Information", "serverCPUUsage", "",
          <<"CPUs", "CPU usage", "Free CPU", "Memory", "OS", "Machine Uptime">>,
          IF Len(bs) > 0 THEN [i \in 1..Len(roomsUsage) |-> roomsUsage[i].name] ELSE <<>>)

\* lines 168-178 after the loop
infoEnd(r, ok) == Finish(Send(r, InfoEmbed(r.rooms), ok))

\* lines 136-149: open up to the call of fs.readFile
openStart(r, ok) ==
    LET e == Embed("Open room", "", "", <<>>, <<>>)
    IN  IF ~knownBot(args(r.content))
        THEN Finish(DescribeAndSend([r EXCEPT !.embed = e], "This bot does not exist", "", <<>>, ok))
        ELSE [r EXCEPT !.embed = IF token(r.content) = <<>>
                                 THEN setDescription(e, "You have to define a headless token", "")
                                 ELSE e,
                       !.reads = @ + 1,
                       !.pc = "open_read"]

\* _command from its first line to its first suspension (or its end)
commandStart(r, bs, ok, evalOk) ==
    IF ~startsWith(r.content, prefix) THEN Finish(r)
    ELSE IF ~isAuthorized(r.sender) THEN Finish(r)
    ELSE LET c == command(r.content)
         IN  CASE routes(c, wHelp) -> Finish(Send(r, HelpEmbed, ok))
               [] routes(c, wTokenlink) -> Finish(Send(r, TokenlinkEmbed, ok))
               [] routes(c, wOpen) -> openStart(r, ok)
               [] routes(c, wInfo) ->
                    LET s == IterStart(r, bs, "info_sample", "info_end")
                    IN  IF s.pc = "info_end" THEN infoEnd(s, ok) ELSE s
               [] routes(c, wMeminfo) -> [r EXCEPT !.pc = "mem_loading"]
               [] routes(c, wClose) ->
                    [r EXCEPT !.embed = Embed("Close room", "Unable to find room", "", <<>>, <<>>),
                              !.closes = @ + 1,
                              !.target = text(r.content),
                              !.pc = "close_wait"]
               [] routes(c, wExit) -> [r EXCEPT !.pc = "exit_send"]
               [] routes(c, wEval) ->
                    Finish(Send([r EXCEPT !.evals = @ + 1], EvalReply(evalOk), ok))
               [] OTHER -> Finish(r)

(***************************************************************************)
(* The fleet controller (class Server): open and close.                    *)
(***************************************************************************)
\* Server.open succeeded: the room is inserted at the end of the fleet
serverOpen(bs, pid, title, proxy) == Append(bs, Room(pid, title, proxy))

\* Server.close(target): the first room whose title or proxy is the target
\* is terminated and removed; res is the value returned
serverClose(bs, target) ==
    LET hits == {i \in 1..Len(bs) :
                    \/ bs[i].title = target
                    \/ (bs[i].proxy # NoProxy /\ bs[i].proxy = target)}
    IN  IF hits = {} THEN [res |-> FALSE, pid |-> 0, browsers |-> bs]
        ELSE LET i == CHOOSE k \in hits : \A j \in hits : k <= j
             IN  [res |-> TRUE, pid |-> bs[i].pid,
                  browsers |-> SubSeq(bs, 1, i - 1) \o SubSeq(bs, i + 1, Len(bs))]

\* a loop that calls browser.close() outside an async callback: the first
\* failing call throws, ends the loop and keeps process.exit() from running
forEachClose_StopsAtFailure(bs, failNow) ==
    LET bad == {i \in 1..Len(bs) : bs[i].pid \in failNow}
        last == IF bad = {} THEN Len(bs) ELSE CHOOSE i \in bad : \A j \in bad : i <= j
        tried == {bs[i].pid : i \in 1..last}
    IN  [ attempted |-> tried,
          state     |-> [p \in tried |-> IF p \in failNow THEN "failed" ELSE "pending"],
          exits     |-> bad = {} ]

\* lines 233-237: forEach calls the async callback once per room, each call
\* runs up to browser.close() and returns a promise (already rejected for the
\* rooms of failNow); nothing waits for them and process.exit() follows
forEachClose(bs, failNow) ==
    [ attempted |-> Pids(bs),
      state     |-> [p \in Pids(bs) |-> IF p \in failNow THEN "failed" ELSE "pending"],
      exits     |-> TRUE ]

(***************************************************************************)
(* Actions.  Each one is a run of the event loop: from the arrival of a    *)
(* message or the settling of an awaited promise to the next suspension.   *)
(***************************************************************************)
\* handlers run one after the other: a handler goes on only when every
\* earlier one has ended
Live_Serialised(m) ==
    /\ ~exited /\ m \in 1..Len(msgs)
    /\ \A k \in 1..(m - 1) : msgs[k].pc \in {"done", "rejected", "exited"}

\* a handler goes on when its awaited promise settles, whatever the other
\* handlers do, as long as process.exit() has not run
Live(m) == ~exited /\ m \in 1..Len(msgs)

\* the 'message' event, lines 41-47 and 102-253 up to the first suspension
Receive(sender, content) ==
    /\ ~exited
    /\ Len(msgs) < MaxMsgs
    /\ \E ok \in BOOLEAN, evalOk \in BOOLEAN :
          msgs' = Append(msgs, commandStart([NewMsg(sender, content)
                                               EXCEPT !.present = Pids(browsers)],
                                            browsers, ok, evalOk))
    /\ UNCHANGED <<browsers, closing, exited, nextPid>>

\* the callback of fs.readFile, lines 151-156 (and 164 after a read error)
ReadFileCallback(m) ==
    /\ Live(m)
    /\ msgs[m].pc = "open_read"
    /\ \/ \E err \in ReadErrors, ok \in BOOLEAN :
             msgs' = [msgs EXCEPT ![m] =
                        Finish(DescribeAndSend(@, "Error", err, <<>>, ok))]
       \/ msgs' = [msgs EXCEPT ![m].spawns = @ + 1, ![m].pc = "open_spawn"]
    /\ UNCHANGED <<browsers, closing, exited, nextPid>>

\* Server.open settles, lines 156-164
OpenSettle(m) ==
    /\ Live(m)
    /\ msgs[m].pc = "open_spawn"
    /\ \E ok \in BOOLEAN :
          \/ /\ Len(browsers) < MaxRooms
             /\ \E t \in Titles, x \in Proxies :
                   browsers' = serverOpen(browsers, nextPid, t, x)
             /\ nextPid' = nextPid + 1
             /\ msgs' = [msgs EXCEPT ![m] =
                           Finish(DescribeAndSend(@, "Room running!", "",
                                                  <<Tok("pid", <<>>, nextPid, NoProxy)>>, ok))]
          \/ /\ \E cause \in SpawnErrors :
                   msgs' = [msgs EXCEPT ![m] =
                              Finish(DescribeAndSend(@, "Unable to open the room!", cause, <<>>, ok))]
             /\ UNCHANGED <<browsers, nextPid>>
    /\ UNCHANGED <<closing, exited>>

\* a loop that consumes the fleet while it walks it: the room just read is
\* taken out of Server.browsers
InfoSample_Consuming(m) ==
    /\ Live(m)
    /\ msgs[m].pc = "info_sample"
    /\ \E ok \in BOOLEAN :
          LET r == msgs[m]
              rest == SelectSeq(browsers, LAMBDA b : b.pid # r.cur.pid)
              s == IterNext([r EXCEPT !.rooms = Append(@, [name |-> RoomName(r.cur),
                                                           proxy |-> r.cur.proxy]),
                                      !.idx = 1],
                            rest, "info_sample", "info_end")
          IN  /\ browsers' = rest
              /\ msgs' = [msgs EXCEPT ![m] = IF s.pc = "info_end" THEN infoEnd(s, ok) ELSE s]
    /\ UNCHANGED <<closing, exited, nextPid>>

\* one iteration of the loop of _getRoomNameList settles, lines 65-70, and
\* after the last one lines 72-87 and 170-177
InfoSample(m) ==
    /\ Live(m)
    /\ msgs[m].pc = "info_sample"
    /\ \/ msgs' = [msgs EXCEPT ![m] = Raise([@ EXCEPT !.sampleFailed = msgs[m].cur.pid], "title")]
       \/ \E ok \in BOOLEAN :
             LET r == msgs[m]
                 s == IterNext([r EXCEPT !.rooms = Append(@, [name |-> RoomName(r.cur),
                                                              proxy |-> r.cur.proxy])],
                               browsers, "info_sample", "info_end")
             IN  msgs' = [msgs EXCEPT ![m] = IF s.pc = "info_end" THEN infoEnd(s, ok) ELSE s]
    /\ UNCHANGED <<browsers, closing, exited, nextPid>>

\* the awaited send of the Loading embed settles, line 186; then
\* _getRoomUsageList starts, lines 90-94
MemLoadingSettle(m) ==
    /\ Live(m)
    /\ msgs[m].pc = "mem_loading"
    /\ \/ msgs' = [msgs EXCEPT ![m] = Raise(Send(@, LoadingEmbed, FALSE), "send")]
       \/ msgs' = [msgs EXCEPT ![m] =
                     IterStart(Send(@, LoadingEmbed, TRUE), browsers, "mem_sample", "mem_host")]
    /\ UNCHANGED <<browsers, closing, exited, nextPid>>

\* one iteration of the loop of _getRoomUsageList settles, lines 93-97
MemSample(m) ==
    /\ Live(m)
    /\ msgs[m].pc = "mem_sample"
    /\ \/ \E k \in {"telemetry", "title"} :
             msgs' = [msgs EXCEPT ![m] = Raise([@ EXCEPT !.sampleFailed = msgs[m].cur.pid], k)]
       \/ LET r == msgs[m]
          IN  msgs' = [msgs EXCEPT ![m] =
                         IterNext([r EXCEPT !.rooms = Append(@, [name |-> RoomName(r.cur),
                                                                 proxy |-> r.cur.proxy])],
                                  browsers, "mem_sample", "mem_host")]
    /\ UNCHANGED <<browsers, closing, exited, nextPid>>

\* the host and console samples settle and the report is written, lines 190-209
MemHost(m) ==
    /\ Live(m)
    /\ msgs[m].pc = "mem_host"
    /\ \/ msgs' = [msgs EXCEPT ![m] = Raise(@, "host")]
       \/ \E ok \in BOOLEAN :
             msgs' = [msgs EXCEPT ![m] = Finish(Edit(@, MeminfoEmbed(@.rooms, browsers), ok))]
    /\ UNCHANGED <<browsers, closing, exited, nextPid>>

\* the description set whatever Server.close returned
closeDescription_AlwaysClosed(res, d) == "Room closed!"

\* lines 219-221: if (res) embed.setDescription("Room closed!"); d is the
\* description the embed was built with
closeDescription(res, d) == IF res THEN "Room closed!" ELSE d

\* Server.close settles, lines 217-223
CloseSettle(m) ==
    /\ Live(m)
    /\ msgs[m].pc = "close_wait"
    /\ \/ /\ msgs' = [msgs EXCEPT ![m] = Raise(@, "close")]
          /\ UNCHANGED browsers
       \/ \E ok \in BOOLEAN :
             LET c == serverClose(browsers, msgs[m].target)
             IN  /\ browsers' = c.browsers
                 /\ msgs' = [msgs EXCEPT ![m] =
                       Finish(DescribeAndSend(
                                 [@ EXCEPT !.terms = IF c.res THEN @ \cup {c.pid} ELSE @,
                                           !.res = IF c.res THEN "true" ELSE "false"],
                                 closeDescription(c.res, @.embed.description),
                                 "", <<>>, ok))]
    /\ UNCHANGED <<closing, exited, nextPid>>

\* the send of the Closing embed not awaited: the terminations and
\* process.exit() follow whatever becomes of the reply
exitAfterSend_NotAwaited(r, ok, f) ==
    [Send(r, ClosingEmbed, ok)
       EXCEPT !.terms = f.attempted,
              !.exits = f.exits,
              !.pc = IF f.exits THEN "exited" ELSE "rejected"]

\* lines 231-237: await msg.channel.send(embed); a send that fails rejects
\* _command there, otherwise the terminations f and process.exit() follow
exitAfterSend(r, ok, f) ==
    IF ok
    THEN [Send(r, ClosingEmbed, TRUE)
            EXCEPT !.terms = f.attempted,
                   !.exits = f.exits,
                   !.pc = IF f.exits THEN "exited" ELSE "rejected"]
    ELSE Raise(Send(r, ClosingEmbed, FALSE), "send")

\* the awaited send of the Closing embed settles, lines 231-237
ExitSendSettle(m) ==
    /\ Live(m)
    /\ msgs[m].pc = "exit_send"
    /\ \E ok \in BOOLEAN, failNow \in SUBSET Pids(browsers) :
          LET f == forEachClose(browsers, failNow)
              r == exitAfterSend(msgs[m], ok, f)
          IN  /\ msgs' = [msgs EXCEPT ![m] = r]
              /\ closing' = IF r.exits \/ r.terms # {} THEN f.state ELSE closing
              /\ exited' = r.exits
    /\ UNCHANGED <<browsers, nextPid>>

\* a room process answers a browser.close() of exit
BrowserCloseSettle(p) ==
    /\ p \in DOMAIN closing
    /\ closing[p] = "pending"
    /\ \E res \in {"closed", "failed"} : closing' = [closing EXCEPT ![p] = res]
    /\ UNCHANGED <<msgs, browsers, exited, nextPid>>

Next ==
    \/ \E sender \in Senders, content \in Contents : Receive(sender, content)
    \/ \E m \in 1..MaxMsgs : ReadFileCallback(m)
    \/ \E m \in 1..MaxMsgs : OpenSettle(m)
    \/ \E m \in 1..MaxMsgs : InfoSample(m)
    \/ \E m \in 1..MaxMsgs : MemLoadingSettle(m)
    \/ \E m \in 1..MaxMsgs : MemSample(m)
    \/ \E m \in 1..MaxMsgs : MemHost(m)
    \/ \E m \in 1..MaxMsgs : CloseSettle(m)
    \/ \E m \in 1..MaxMsgs : ExitSendSettle(m)
    \/ \E p \in 1..(MaxRooms + MaxMsgs) : BrowserCloseSettle(p)

Spec == Init /\ [][Next]_vars

(***************************************************************************)
(* The inventory on its own: info commands of an allow-listed sender on a  *)
(* fleet that nothing else changes, for fleets of up to MaxInfoRooms rooms *)
(* with three titles and two proxy labels.                                 *)
(***************************************************************************)
InfoTitles == Titles \cup {titleC}
InfoProxies == Proxies \cup {proxy2}

RECURSIVE InfoFleets(_)
InfoFleets(n) ==
    IF n = 0 THEN {<<>>}
    ELSE InfoFleets(n - 1) \cup
         {Append(f, Room(n, t, x)) : f \in {g \in InfoFleets(n - 1) : Len(g) = n - 1},
                                      t \in InfoTitles, x \in InfoProxies}

InitInfo ==
    /\ msgs = <<>>
    /\ browsers \in InfoFleets(MaxInfoRooms)
    /\ closing = <<>>
    /\ exited = FALSE
    /\ nextPid = Len(browsers) + 1

NextInfo ==
    \/ Receive("master", Line(<<wInfo>>))
    \/ \E m \in 1..MaxMsgs : InfoSample(m)

SpecInfo == InitInfo /\ [][NextInfo]_vars

(***************************************************************************)
(* The parsing on its own: messages of an allow-listed sender with no      *)
(* argument, one argument, several arguments, two spaces between the words *)
(* and a space after the prefix, and the close commands among them run to  *)
(* their end.                                                              *)
(***************************************************************************)
TextContents ==
    { Line(<<wClose>>), Line(<<wClose, titleA>>), Line(<<wClose, titleA, titleB>>),
      Line(<<wClose, <<>>, titleA>>), Line(<<wClose, wClose, titleA>>),
      prefix \o SP \o join(<<wClose, titleA>>, SP) \o SP,
      Line(<<wOpen, wAlpha, wTok>>) }

NextText ==
    \/ \E content \in TextContents : Receive("master", content)
    \/ \E m \in 1..MaxMsgs : CloseSettle(m)

SpecText == Init /\ [][NextText]_vars

(***************************************************************************)
(* A room process that never answers: open and close commands of an        *)
(* allow-listed sender, where Server.open and Server.close of the first    *)
(* command may stay pending forever.  The event loop runs the callback of  *)
(* every operation that completes: the payload reads complete, and so do   *)
(* Server.open and Server.close of the later commands.                     *)
(***************************************************************************)
HungContents ==
    { Line(<<wHelp>>), Line(<<wOpen, wAlpha, wTok>>),
      Line(<<wClose, titleA>>), Line(<<wClose, titleB>>) }

NextHung ==
    \/ \E content \in HungContents : Receive("master", content)
    \/ \E m \in 1..MaxMsgs : ReadFileCallback(m)
    \/ \E m \in 1..MaxMsgs : OpenSettle(m)
    \/ \E m \in 1..MaxMsgs : CloseSettle(m)

FairHung ==
    /\ \A m \in 1..MaxMsgs : WF_vars(ReadFileCallback(m))
    /\ \A m \in 2..MaxMsgs : WF_vars(OpenSettle(m)) /\ WF_vars(CloseSettle(m))

SpecHung == Init /\ [][NextHung]_vars /\ FairHung

(***************************************************************************)
(* Vocabulary of the properties.                                           *)
(***************************************************************************)
Msgs == 1..Len(msgs)
Prefixed(r) == startsWith(r.content, prefix)
FromMaster(r) == r.sender \in mastersDiscordId
\* a prefixed message of an allow-listed sender whose command name is c
Privileged(r, c) == FromMaster(r) /\ Prefixed(r) /\ command(r.content) = c
BotIsKnown(r) == args(r.content) # <<>> /\ args(r.content)[1] \in DOMAIN bots
Ended(r) == r.pc \in {"done", "rejected", "exited"}
Completed(r) == r.pc \in {"done", "exited"}

\* the handler did nothing that can be observed
Silent(r) ==
    /\ r.pc = "done"
    /\ r.replies = <<>> /\ r.edits = <<>> /\ r.logged = <<>>
    /\ r.reads = 0 /\ r.spawns = 0 /\ r.closes = 0 /\ r.evals = 0
    /\ r.terms = {} /\ ~r.exits /\ r.failure = "none"

SpecNames == {wHelp, wInfo, wMeminfo, wOpen, wClose, wExit}
CodeNames == SpecNames \cup {wTokenlink, wEval}

(***************************************************************************)
(* C1.  A message of a sender outside the allow-list, whatever its command *)
(* name and arguments, sends no reply, edits nothing, reads no payload,    *)
(* spawns and terminates no room process and does not exit the console:    *)
(* its handler ends exactly as the handler of an unrecognized command.     *)
(***************************************************************************)
C1_UnauthorizedIsSilent ==
    \A m \in Msgs : ~FromMaster(msgs[m]) => Silent(msgs[m])

\* an outsider has sent a prefixed exit, and another an eval
C1_Witness ==
    \E m \in Msgs :
        /\ ~FromMaster(msgs[m]) /\ Prefixed(msgs[m])
        /\ command(msgs[m].content) \in {wExit, wEval}
        /\ Len(browsers) > 0
        /\ msgs[m].pc = "done"

(***************************************************************************)
(* C2.  Every failure raised inside a command handler is caught by the     *)
(* dispatcher and turned into an error reply (_logError) on the channel;   *)
(* none escapes as an unhandled rejection.                                 *)
(***************************************************************************)
C2_FailuresAreLogged ==
    \A m \in Msgs : msgs[m].failure # "none" => Len(msgs[m].logged) = 1

(***************************************************************************)
(* C3.  The console exits only after every termination started by exit has *)
(* completed (returned or failed), never while one is pending.             *)
(***************************************************************************)
C3_ExitAfterTerminations ==
    exited => \A p \in DOMAIN closing : closing[p] # "pending"

(***************************************************************************)
(* C4.  Once the Closing reply of an exit is delivered, a termination has  *)
(* been attempted for every room of the fleet and the console has exited,  *)
(* whichever terminations fail.                                            *)
(***************************************************************************)
C4_ExitAttemptsEveryRoom ==
    \A m \in Msgs :
        LET r == msgs[m]
        IN  (Privileged(r, wExit) /\ r.replies # <<>> /\ r.replies[1].delivered)
            => /\ r.terms = Pids(browsers)
               /\ DOMAIN closing = Pids(browsers)
               /\ r.exits /\ exited

\* exit on a fleet of two rooms, the termination of the first one failing
C4_Witness ==
    \E m \in Msgs :
        /\ Privileged(msgs[m], wExit) /\ msgs[m].exits
        /\ Len(browsers) = 2
        /\ closing[browsers[1].pid] = "failed"
        /\ closing[browsers[2].pid] # "failed"

(***************************************************************************)
(* C5.  A meminfo in which the sampling of one room failed still ends with *)
(* its report written into the Loading message, with an entry for every    *)
(* room whose sampling succeeded.                                          *)
(***************************************************************************)
C5_MeminfoSurvivesRoomFailure ==
    \A m \in Msgs :
        LET r == msgs[m]
        IN  (Privileged(r, wMeminfo) /\ r.sampleFailed # 0 /\ Ended(r))
            => /\ Len(r.edits) = 1
               /\ \A i \in 1..Len(r.rooms) : r.rooms[i].name \in Range(r.edits[1].embed.body)

(***************************************************************************)
(* C6.  A help, info, meminfo, open, close or exit of an allow-listed      *)
(* sender that has run to its end has sent exactly one message to the      *)
(* channel; meminfo sent Loading and edited it once, the others edited     *)
(* nothing.                                                                *)
(***************************************************************************)
C6_ExactlyOneReply ==
    \A m \in Msgs :
        LET r == msgs[m]
        IN  (FromMaster(r) /\ Prefixed(r) /\ command(r.content) \in SpecNames /\ Completed(r))
            => /\ Len(r.replies) = 1
               /\ IF command(r.content) = wMeminfo
                  THEN r.replies[1].embed = LoadingEmbed /\ Len(r.edits) = 1
                  ELSE r.edits = <<>>

\* a meminfo on a fleet with rooms, and a close, have both run to their end
C6_Witness ==
    /\ \E m \in Msgs : Privileged(msgs[m], wMeminfo) /\ msgs[m].pc = "done"
                       /\ msgs[m].rooms # <<>>
    /\ \E m \in Msgs : Privileged(msgs[m], wClose) /\ msgs[m].pc = "done"

(***************************************************************************)
(* C7 as stated.  Only help, info, meminfo, open, close and exit are       *)
(* routed: any other command name of an allow-listed sender is silent.     *)
(***************************************************************************)
C7_OnlySpecNamesRouted ==
    \A m \in Msgs :
        (FromMaster(msgs[m]) /\ Prefixed(msgs[m]) /\ command(msgs[m].content) \notin SpecNames)
        => Silent(msgs[m])

(***************************************************************************)
(* C7 as amended.  Only help, tokenlink, open, info, meminfo, close, exit  *)
(* and eval are routed: any other command name of an allow-listed sender   *)
(* is silent.                                                              *)
(***************************************************************************)
C7_OnlyCodeNamesRouted ==
    \A m \in Msgs :
        (FromMaster(msgs[m]) /\ Prefixed(msgs[m]) /\ command(msgs[m].content) \notin CodeNames)
        => Silent(msgs[m])

\* an allow-listed sender has sent the unrecognized command helps
C7_Witness ==
    \E m \in Msgs : Privileged(msgs[m], wHelps) /\ msgs[m].pc = "done"

\* the handler of an open with an unknown bot id, as a state
UnknownBotState ==
    \A m \in Msgs :
        LET r == msgs[m]
        IN  (Privileged(r, wOpen) /\ ~BotIsKnown(r))
            => /\ r.pc = "done"
               /\ r.reads = 0 /\ r.spawns = 0 /\ r.closes = 0 /\ r.terms = {}
               /\ Len(r.replies) = 1
               /\ r.replies[1].embed.description = "This bot does not exist"

\* the step that handles an open with an unknown bot id
UnknownBotStep ==
    (/\ Len(msgs') = Len(msgs) + 1
     /\ Privileged(msgs'[Len(msgs')], wOpen)
     /\ ~BotIsKnown(msgs'[Len(msgs')]))
    => browsers' = browsers

(***************************************************************************)
(* C8.  An open whose bot id is not a key of the bot definitions reads no  *)
(* payload, calls neither Server.open nor Server.close, terminates no room *)
(* and sends exactly one reply, which says that the bot does not exist;    *)
(* the step that handles it leaves the fleet as it was.                    *)
(***************************************************************************)
C8_UnknownBot == [](UnknownBotState) /\ [][UnknownBotStep]_vars

\* an open of the unknown bot beta has been handled on a fleet with a room
C8_Witness ==
    \E m \in Msgs :
        /\ Privileged(msgs[m], wOpen) /\ ~BotIsKnown(msgs[m])
        /\ msgs[m].pc = "done" /\ Len(browsers) > 0

(***************************************************************************)
(* C9.  An open with a known bot id and an empty token still reaches       *)
(* Server.open when the payload is read, and the reply it sends carries    *)
(* the missing-token warning.                                              *)
(***************************************************************************)
C9_MissingTokenWarned ==
    \A m \in Msgs :
        LET r == msgs[m]
        IN  (/\ Privileged(r, wOpen) /\ BotIsKnown(r) /\ token(r.content) = <<>>
             /\ r.spawns = 1 /\ r.replies # <<>> /\ r.replies[1].delivered)
            => r.replies[1].embed.description = "You have to define a headless token"

(***************************************************************************)
(* C10.  No open with a known bot id is dropped: when the console has      *)
(* stopped, every such open has sent the reply that reports its outcome.   *)
(***************************************************************************)
C10_OpenAlwaysAnswered ==
    exited =>
        \A m \in Msgs :
            (Privileged(msgs[m], wOpen) /\ BotIsKnown(msgs[m])) => Len(msgs[m].replies) = 1

\* The part of C10 that is about one handler: an open that has run to its
\* end sent one reply; after a read error Server.open was not called and the
\* reply carries the error, after a failed spawn it carries the cause, after
\* a spawn it carries the process id of the room.
OpenReplyReportsOutcome ==
    \A m \in Msgs :
        LET r == msgs[m]
        IN  (Privileged(r, wOpen) /\ BotIsKnown(r) /\ r.pc = "done")
            => /\ Len(r.replies) = 1
               /\ LET e == r.replies[1].embed
                  IN  \/ e.description = "Error" /\ e.cause \in ReadErrors /\ r.spawns = 0
                      \/ e.description = "Unable to open the room!" /\ e.cause \in SpawnErrors
                         /\ r.spawns = 1
                      \/ e.description = "Room running!" /\ r.spawns = 1
                         /\ Len(e.body) = 1 /\ e.body[1].k = "pid" /\ e.body[1].pid < nextPid

(***************************************************************************)
(* Vocabulary of the inventory claims: b is the body of a report, bs the   *)
(* fleet it reports.                                                       *)
(***************************************************************************)
Headers(b) == {j \in 1..Len(b) : b[j].k = "header"}
Labels(bs) == {bs[i].proxy : i \in 1..Len(bs)}
\* position in the fleet of the first room with label x
FirstSeen(bs, x) ==
    CHOOSE i \in 1..Len(bs) : bs[i].proxy = x /\ \A k \in 1..(i - 1) : bs[k].proxy # x
\* lines of the report that carry the name of room i
NameLines(b, bs, i) == {j \in 1..Len(b) : b[j] = RoomName(bs[i])}
\* line j of the report stands under header line h
Under(b, h, j) == h < j /\ \A k \in Headers(b) : ~(h < k /\ k < j)
\* an info command that has sent its report
Reported(r) == Privileged(r, wInfo) /\ r.pc = "done" /\ Len(r.replies) = 1
Report(r) == r.replies[1].embed.body

Grouped(b, bs) ==
    /\ \A x \in Labels(bs) : Cardinality({h \in Headers(b) : b[h].proxy = x}) = 1
    /\ \A h \in Headers(b) : b[h].proxy \in Labels(bs)
    /\ \A h, k \in Headers(b) :
          h < k => FirstSeen(bs, b[h].proxy) < FirstSeen(bs, b[k].proxy)
    /\ \A j \in 1..Len(b) : b[j].k = "name" => \E i \in 1..Len(bs) : b[j] = RoomName(bs[i])
    /\ \A i \in 1..Len(bs) :
          /\ Cardinality(NameLines(b, bs, i)) = 1
          /\ \A j \in NameLines(b, bs, i) :
                \E h \in Headers(b) : b[h].proxy = bs[i].proxy /\ Under(b, h, j)
    /\ \A i, k \in 1..Len(bs) :
          (i < k /\ bs[i].proxy = bs[k].proxy)
          => \A j \in NameLines(b, bs, i), l \in NameLines(b, bs, k) : j < l

(***************************************************************************)
(* C11.  The inventory of a fleet in which some room has a proxy label has *)
(* exactly one header per distinct label (the rooms without a label are    *)
(* one group), the headers come in first-seen order, and every room is     *)
(* named exactly once, under the header of its own label and in insertion  *)
(* order within its group.                                                 *)
(***************************************************************************)
C11_GroupedByProxy ==
    \A m \in Msgs :
        (Reported(msgs[m]) /\ Labels(browsers) # {NoProxy} /\ browsers # <<>>)
        => Grouped(Report(msgs[m]), browsers)

\* the fleet [A:proxy1, B:proxy1, C:none] has been reported: proxy1 with A
\* and B, then the group without a label with C
C11_Witness ==
    /\ browsers = <<Room(1, titleA, proxy1), Room(2, titleB, proxy1), Room(3, titleC, NoProxy)>>
    /\ \E m \in Msgs :
          /\ Reported(msgs[m])
          /\ Report(msgs[m]) =
                <<Tok("header", <<>>, 0, proxy1), NL,
                  RoomName(browsers[1]), NL, RoomName(browsers[2]), NL, NL,
                  Tok("header", <<>>, 0, NoProxy), NL, RoomName(browsers[3]), NL>>

(***************************************************************************)
(* C12.  The inventory of an empty fleet is the fixed message that there   *)
(* are no open rooms, never an empty text; the inventory of a fleet of at  *)
(* least one room, none with a proxy label, is the names of all its rooms, *)
(* one per line, in insertion order, with no header.                       *)
(***************************************************************************)
C12_EmptyAndFlat ==
    \A m \in Msgs :
        Reported(msgs[m]) =>
            LET b == Report(msgs[m])
            IN  /\ b # <<>>
                /\ browsers = <<>> => b = <<Tok("noRooms", <<>>, 0, NoProxy)>>
                /\ (browsers # <<>> /\ Labels(browsers) = {NoProxy})
                   => /\ Len(b) = 2 * Len(browsers) - 1
                      /\ \A i \in 1..Len(browsers) : b[2 * i - 1] = RoomName(browsers[i])
                      /\ \A i \in 1..(Len(browsers) - 1) : b[2 * i] = NL

\* an empty fleet has been reported, and so has a fleet of three rooms
\* without a proxy label
C12_WitnessEmpty ==
    browsers = <<>> /\ \E m \in Msgs : Reported(msgs[m])

C12_Witness ==
    /\ Len(browsers) = MaxInfoRooms /\ Labels(browsers) = {NoProxy}
    /\ \E m \in Msgs : Reported(msgs[m]) /\ msgs[m].replies[1].delivered

(***************************************************************************)
(* Vocabulary of the claims about reports under open and close.            *)
(***************************************************************************)
\* a meminfo command that has written its report over the Loading message
MemReported(r) == Privileged(r, wMeminfo) /\ r.pc = "done" /\ Len(r.edits) = 1
MemReport(r) == r.edits[1].embed.body
\* pids of the rooms named in the body of a report
Named(b) == {b[j].pid : j \in {k \in 1..Len(b) : b[k].k = "name"}}

(***************************************************************************)
(* C13.  info and meminfo report the fleet as it was at one moment of the  *)
(* command, whatever open and close commands run meanwhile: in particular  *)
(* a room that was in the fleet when the command arrived and is still in   *)
(* it is named in the report.                                              *)
(***************************************************************************)
C13_NoRoomSkipped ==
    \A m \in Msgs :
        LET r == msgs[m]
        IN  /\ Reported(r) => (r.present \cap Pids(browsers)) \subseteq Named(Report(r))
            /\ MemReported(r) => (r.present \cap Pids(browsers)) \subseteq Named(MemReport(r))

\* the commands that only read
ReadNames == {wHelp, wInfo, wMeminfo}
ReadOnly(r) == \E c \in ReadNames : Privileged(r, c)

\* a handler of a reading command has called neither Server.open nor
\* Server.close and has asked no room process to terminate
ReadersState ==
    \A m \in Msgs :
        ReadOnly(msgs[m]) =>
            /\ msgs[m].spawns = 0 /\ msgs[m].closes = 0
            /\ msgs[m].terms = {} /\ ~msgs[m].exits

\* a step of the handler of a reading command leaves the fleet and the room
\* processes as they were
ReadersStep ==
    \A m \in 1..Len(msgs') :
        (ReadOnly(msgs'[m]) /\ (m > Len(msgs) \/ msgs'[m] # msgs[m]))
        => /\ browsers' = browsers
           /\ closing' = closing
           /\ nextPid' = nextPid
           /\ exited' = exited

(***************************************************************************)
(* C14.  help, info and meminfo, alone or concurrent with one another in   *)
(* any number and interleaving, never change the fleet: they add, remove,  *)
(* spawn and terminate no room.                                            *)
(***************************************************************************)
C14_ReadersKeepFleet == [](ReadersState) /\ [][ReadersStep]_vars

\* an info command arrived while a meminfo command was sampling a fleet of
\* two rooms and has sent its report before the meminfo has ended
C14_Witness ==
    /\ Len(msgs) = 2 /\ Len(browsers) = 2
    /\ Privileged(msgs[1], wMeminfo) /\ msgs[1].pc = "mem_sample"
    /\ Reported(msgs[2]) /\ Len(msgs[2].rooms) = 2

\* the sampling of a meminfo command has started
SamplingStarted(r) ==
    r.pc \in {"mem_sample", "mem_host"} \/ r.rooms # <<>> \/ r.sampleFailed # 0 \/ r.edits # <<>>

\* the first half of C15: nothing is sampled before the Loading reply has
\* been delivered
LoadingBeforeSampling ==
    \A m \in Msgs :
        (Privileged(msgs[m], wMeminfo) /\ SamplingStarted(msgs[m]))
        => /\ Len(msgs[m].replies) = 1
           /\ msgs[m].replies[1].embed = LoadingEmbed
           /\ msgs[m].replies[1].delivered

(***************************************************************************)
(* C15.  meminfo sends the Loading reply before it samples anything, and   *)
(* a meminfo whose collaborators have all returned, with a value or with   *)
(* an error, has replaced the Loading reply by the report: a handler that  *)
(* has ended has edited the Loading message it delivered.                  *)
(***************************************************************************)
C15_LoadingReplaced ==
    /\ LoadingBeforeSampling
    /\ \A m \in Msgs :
          LET r == msgs[m]
          IN  (/\ Privileged(r, wMeminfo) /\ Ended(r)
               /\ r.replies # <<>> /\ r.replies[1].delivered)
              => Len(r.edits) = 1

\* no room of the fleet bs has the title or the proxy label t
NoMatch(bs, t) ==
    \A i \in 1..Len(bs) : bs[i].title # t /\ (bs[i].proxy = NoProxy \/ bs[i].proxy # t)

\* a close whose call of Server.close has returned sent one reply, which
\* says that the room was closed exactly when the call returned true
CloseReplyState ==
    \A m \in Msgs :
        LET r == msgs[m]
        IN  (Privileged(r, wClose) /\ r.res # "none")
            => /\ r.pc = "done" /\ Len(r.replies) = 1
               /\ r.res = "true" <=> r.replies[1].embed.description = "Room closed!"
               /\ r.res = "false" <=> r.replies[1].embed.description = "Unable to find room"

\* the step in which Server.close returns for a target that matches no room
CloseNoMatchStep ==
    \A m \in Msgs :
        (/\ msgs[m].pc = "close_wait" /\ msgs'[m].pc = "done"
         /\ NoMatch(browsers, msgs[m].target))
        => /\ browsers' = browsers
           /\ closing' = closing
           /\ msgs'[m].terms = {}
           /\ msgs'[m].res = "false"

(***************************************************************************)
(* C16.  close replies 'Room closed!' exactly when Server.close returned   *)
(* true and 'Unable to find room' when it returned false; when no room has *)
(* the target as its title or its proxy label, the fleet is left as it was *)
(* and no room process is terminated.                                      *)
(***************************************************************************)
C16_CloseReply == [](CloseReplyState) /\ [][CloseNoMatchStep]_vars

\* a close of A on a fleet without a room A has answered that the room was
\* not found, and the fleet still has its room
C16_Witness ==
    \E m \in Msgs :
        /\ Privileged(msgs[m], wClose) /\ msgs[m].res = "false"
        /\ msgs[m].replies[1].delivered
        /\ browsers # <<>> /\ NoMatch(browsers, msgs[m].target)

\* a close of A has removed the room A and answered that it was closed
C16_WitnessClosed ==
    \E m \in Msgs :
        /\ Privileged(msgs[m], wClose) /\ msgs[m].res = "true"
        /\ msgs[m].replies[1].embed.description = "Room closed!"
        /\ msgs[m].terms # {} /\ msgs[m].terms \cap Pids(browsers) = {}

\* the words that follow the command name, joined as they were written
ArgumentText(content) == join(args(content), SP)

\* the part of C17 about messages that have an argument
TailWithArguments ==
    \A m \in Msgs :
        LET r == msgs[m]
        IN  (Prefixed(r) /\ args(r.content) # <<>>)
            => /\ text(r.content) = ArgumentText(r.content)
               /\ r.closes = 1 => r.target = ArgumentText(r.content)

(***************************************************************************)
(* C17.  The text handed to the handlers of a prefixed message (the target *)
(* of close, the arguments of open) is the words that follow the command   *)
(* name, joined as written, for any number of arguments, and the empty     *)
(* text when the command has no argument.                                  *)
(***************************************************************************)
C17_TailIsArguments ==
    \A m \in Msgs :
        LET r == msgs[m]
        IN  Prefixed(r)
            => /\ text(r.content) = ArgumentText(r.content)
               /\ r.closes = 1 => r.target = ArgumentText(r.content)

\* the handler has run to its end and sent its one reply, or the call of
\* Server.close it made has itself failed
Answered(r) ==
    \/ r.pc = "done" /\ Len(r.replies) = 1
    \/ r.pc = "rejected" /\ r.failure = "close"

\* the first command is suspended on Server.open or Server.close
FirstHangs == Len(msgs) >= 1 /\ msgs[1].pc \in {"open_spawn", "close_wait"}

C18_WitnessOpen ==
    /\ FirstHangs /\ Len(msgs) >= 2
    /\ Privileged(msgs[2], wOpen) /\ msgs[2].spawns = 1
    /\ msgs[2].pc = "done" /\ Len(msgs[2].replies) = 1 /\ msgs[2].replies[1].delivered

\* pids of the rooms a handler has sampled
Sampled(r) == {r.rooms[i].name.pid : i \in 1..Len(r.rooms)}

\* the part of C19 that holds: a report has no entry for a room the call
\* did not sample
OnlySampledRoomsListed ==
    \A m \in Msgs :
        MemReported(msgs[m]) => Named(MemReport(msgs[m])) \subseteq Sampled(msgs[m])

(***************************************************************************)
(* C19.  The rooms listed in a delivered meminfo report are exactly the    *)
(* rooms whose title and telemetry this call has read, whatever open and   *)
(* close commands run meanwhile.                                           *)
(***************************************************************************)
C19_ReportListsSampledRooms ==
    \A m \in Msgs :
        (MemReported(msgs[m]) /\ msgs[m].edits[1].delivered)
        => Named(MemReport(msgs[m])) = Sampled(msgs[m])

\* the Closing reply of an exit command has been delivered
ClosingDelivered(r) ==
    /\ Len(r.replies) = 1
    /\ r.replies[1].embed = ClosingEmbed
    /\ r.replies[1].delivered

(***************************************************************************)
(* C20.  On exit the Closing reply is delivered before any room process is *)
(* asked to terminate and before the console exits; when the send of that  *)
(* reply fails, the command terminates no room process and does not exit   *)
(* the console.                                                            *)
(***************************************************************************)
C20_ClosingReplyFirst ==
    /\ \A m \in Msgs :
          LET r == msgs[m]
          IN  Privileged(r, wExit)
              => /\ (r.terms # {} \/ r.exits) => ClosingDelivered(r)
                 /\ (r.replies # <<>> /\ ~r.replies[1].delivered)
                    => (r.terms = {} /\ ~r.exits)
    /\ (exited \/ DOMAIN closing # {})
       => \E m \in Msgs : Privileged(msgs[m], wExit) /\ ClosingDelivered(msgs[m])

\* an exit on a fleet of two rooms has delivered its reply, asked both room
\* processes to terminate and stopped the console
C20_Witness ==
    /\ exited /\ Len(browsers) = 2 /\ DOMAIN closing = Pids(browsers)
    /\ \E m \in Msgs :
          Privileged(msgs[m], wExit) /\ ClosingDelivered(msgs[m])
          /\ msgs[m].terms = Pids(browsers)

\* the send of an exit has failed on a fleet of two rooms: no room process
\* has been asked to terminate and the console runs on
C20_WitnessSendFails ==
    /\ ~exited /\ Len(browsers) = 2 /\ DOMAIN closing = {}
    /\ \E m \in Msgs :
          /\ Privileged(msgs[m], wExit) /\ msgs[m].pc = "rejected"
          /\ msgs[m].failure = "send" /\ msgs[m].terms = {}

====
